---- MODULE Spec2Model ----
(***************************************************************************)
(* Model of src/server.js: the in-memory credential store `users`, the     *)
(* Express handlers POST /register, POST /login and GET /logout, and the   *)
(* WebSocket server's 'connection' handler; of safeFetch, the rate limiter *)
(* of src/unnamed/part_000; and of the school-fees app of                  *)
(* src/static/src/App.jsx (its view flags, addStudent and recordPayment).  *)
(* The three programs share no state; each has its own specification.      *)
(*                                                                         *)
(* server.js keeps exactly one piece of state of its own, the Map `users`. *)
(* It keeps no session table: what a session is, in this model, is what    *)
(* the server's replies have told the client of a user (`session`) and     *)
(* which sockets that client has opened (`owner`, `readyState`).           *)
(***************************************************************************)
EXTENDS Integers, FiniteSets, Sequences, TLC

\* ---------------------------------------------------------------- bounds
NumUsers == 2
NumPasswords == 2
NumFields == 1
NumChannels == 3
NumSockets == 2
MaxMessages == 1
NumCalls == 3
TicksPerDelay == 2
MaxTicks == 4
MaxStudents == 2
NumPayCalls == 2

Users == 1..NumUsers
Passwords == 1..NumPasswords
Fields == 1..NumFields
Channels == 1..NumChannels
Sockets == 1..NumSockets

\* ---------------------------------------------------------------- state
VARIABLES
    users,       \* the Map `users`: userName -> stored record
    session,     \* per user: what the login/logout replies have reported
    readyState,  \* per socket: CONNECTING, OPEN or CLOSED
    owner,       \* per socket: the user whose client opened it (0: nobody yet)
    sent,        \* per socket: the messages the server has sent on it
    req,         \* the request or socket event handled last
    res,         \* the HTTP response to it (NoRes for a socket event)
    dispatched   \* per socket: inbound messages handed to the 'message' listener

serverVars == <<users, session, readyState, owner, sent, req, res, dispatched>>

\* src/unnamed/part_000 (the movie widget's rate limiter)
VARIABLES
    now,          \* Date.now(), in milliseconds
    lastRequest,  \* let lastRequest
    fetchCall     \* per safeFetch call: where it is, when its timer is due,
                  \* and when it called fetchMovies

fetchVars == <<now, lastRequest, fetchCall>>

\* src/static/src/App.jsx (the school-fees app)
VARIABLES
    isLoggedIn,           \* useState(false)
    selectedStudent,      \* useState(null): 0 is null, else the student's id
    isAddingStudent,      \* useState(false)
    isAddingPayment,      \* useState(false)
    isGeneratingReceipt,  \* useState(false)
    userId,               \* useState(null): 0 is null
    docs,                 \* the students collection: id -> document
    addPending,           \* addStudent calls waiting for add() to resolve
    payCall               \* per recordPayment call: where it is, its
                          \* studentId and the payments it read

uiVars == <<isLoggedIn, selectedStudent, isAddingStudent, isAddingPayment,
            isGeneratingReceipt>>

appVars == <<uiVars, userId, docs, addPending, payCall>>

vars == <<serverVars, fetchVars, appVars>>

\* What the handlers of one program leave alone: the other programs' state.
nonServerVars == <<fetchVars, appVars>>
nonFetchVars == <<serverVars, appVars>>
nonAppVars == <<serverVars, fetchVars>>

NoRes == [status |-> 0, body |-> ""]
NoReq == [op |-> "none", userName |-> 0, password |-> 0, ws |-> 0]

Handshake == "WebSocket connection established"

\* ------------------------------------------------- the hashing capability
\* server.js calls hashPassword and validatePassword and defines neither;
\* they are the injected capability {hash, verify} of the specification:
\* an opaque one-way value that is never the raw password, and a verify
\* that accepts exactly the password the hash was derived from.
hashPassword(password) == 100 + ((password * 37) % 101)

validatePassword(password, stored) == stored = hashPassword(password)

\* ------------------------------------------------------ POST /register
\* users.set(userName, { ...user, password: hashPassword(password) })
StoredRecordRaw(u, p, f) ==
    [userName |-> u, password |-> p, fields |-> f]

StoredRecord(u, p, f) ==
    [userName |-> u, password |-> hashPassword(p), fields |-> f]

MapSet(m, k, v) == [x \in (DOMAIN m) \cup {k} |-> IF x = k THEN v ELSE m[x]]

RegisterOverwrite(u, p, f) ==
    /\ req' = [op |-> "register", userName |-> u, password |-> p, ws |-> 0]
    /\ users' = MapSet(users, u, StoredRecord(u, p, f))
    /\ res' = [status |-> 200,
               body |-> "Registration successful! Please log in."]
    /\ UNCHANGED <<session, readyState, owner, sent, dispatched>>
    /\ UNCHANGED nonServerVars

Register(u, p, f) ==
    /\ req' = [op |-> "register", userName |-> u, password |-> p, ws |-> 0]
    /\ IF u \in DOMAIN users
         THEN /\ res' = [status |-> 400, body |-> "Username already taken"]
              /\ users' = users
         ELSE /\ users' = MapSet(users, u, StoredRecord(u, p, f))
              /\ res' = [status |-> 200,
                         body |-> "Registration successful! Please log in."]
    /\ UNCHANGED <<session, readyState, owner, sent, dispatched>>
    /\ UNCHANGED nonServerVars

\* --------------------------------------------------------- POST /login
LoginResponseNoVerify(u, p) ==
    IF u \in DOMAIN users
      THEN [status |-> 200, body |-> "Login successful!"]
      ELSE [status |-> 400, body |-> "Invalid username"]

LoginResponse(u, p) ==
    IF u \in DOMAIN users
      THEN IF validatePassword(p, users[u].password)
             THEN [status |-> 200, body |-> "Login successful!"]
             ELSE [status |-> 400, body |-> "Invalid password"]
      ELSE [status |-> 400, body |-> "Invalid username"]

LoginAlwaysSession(u, p) ==
    /\ req' = [op |-> "login", userName |-> u, password |-> p, ws |-> 0]
    /\ res' = LoginResponse(u, p)
    /\ session' = [session EXCEPT ![u] = "Authenticated"]
    /\ UNCHANGED <<users, readyState, owner, sent, dispatched>>
    /\ UNCHANGED nonServerVars

Login(u, p) ==
    /\ req' = [op |-> "login", userName |-> u, password |-> p, ws |-> 0]
    /\ res' = LoginResponse(u, p)
    /\ session' = IF res'.status = 200
                    THEN [session EXCEPT ![u] = "Authenticated"]
                    ELSE session
    /\ UNCHANGED <<users, readyState, owner, sent, dispatched>>
    /\ UNCHANGED nonServerVars

\* --------------------------------------------------------- GET /logout
\* The handler answers 200 and touches nothing else: no socket is closed.
Logout(u) ==
    /\ req' = [op |-> "logout", userName |-> u, password |-> 0, ws |-> 0]
    /\ res' = [status |-> 200, body |-> "Logout successful!"]
    /\ session' = [session EXCEPT ![u] = "LoggedOut"]
    /\ UNCHANGED <<users, readyState, owner, sent, dispatched>>
    /\ UNCHANGED nonServerVars

\* ---------------------------------------------- wss.on('connection', ws)
\* The handler sends the handshake and registers a 'message' listener. It
\* never looks at who connects and never touches another socket.
ConnectionNoHandshake(c, u) ==
    /\ readyState[c] = "CONNECTING"
    /\ req' = [op |-> "connection", userName |-> u, password |-> 0, ws |-> c]
    /\ res' = NoRes
    /\ readyState' = [readyState EXCEPT ![c] = "OPEN"]
    /\ owner' = [owner EXCEPT ![c] = u]
    /\ UNCHANGED <<users, session, sent, dispatched>>
    /\ UNCHANGED nonServerVars

Connection(c, u) ==
    /\ readyState[c] = "CONNECTING"
    /\ req' = [op |-> "connection", userName |-> u, password |-> 0, ws |-> c]
    /\ res' = NoRes
    /\ readyState' = [readyState EXCEPT ![c] = "OPEN"]
    /\ owner' = [owner EXCEPT ![c] = u]
    /\ sent' = [sent EXCEPT ![c] = Append(@, Handshake)]
    /\ UNCHANGED <<users, session, dispatched>>
    /\ UNCHANGED nonServerVars

\* A socket closing (peer disconnect, protocol error): server.js registers
\* no 'close' listener, so nothing but the socket itself changes.
Close(c) ==
    /\ readyState[c] = "OPEN"
    /\ req' = [op |-> "close", userName |-> owner[c], password |-> 0, ws |-> c]
    /\ res' = NoRes
    /\ readyState' = [readyState EXCEPT ![c] = "CLOSED"]
    /\ UNCHANGED <<users, session, owner, sent, dispatched>>
    /\ UNCHANGED nonServerVars

\* ws.on('message', ...): the listener is registered by the connection
\* handler, after its ws.send, so a message is dispatched only on a socket
\* that handler has run for and that is still open. It only logs.
Message(c) ==
    /\ readyState[c] = "OPEN"
    /\ dispatched[c] < MaxMessages
    /\ req' = [op |-> "message", userName |-> owner[c], password |-> 0, ws |-> c]
    /\ res' = NoRes
    /\ dispatched' = [dispatched EXCEPT ![c] = @ + 1]
    /\ UNCHANGED <<users, session, readyState, owner, sent>>
    /\ UNCHANGED nonServerVars

\* ------------------------------------------------------------ safeFetch
API_DELAY == 1000

FetchCalls == 1..NumCalls
Tick == API_DELAY \div TicksPerDelay
EndOfTime == API_DELAY + MaxTicks * Tick

\* lastRequest starts at 0 and Date.now() is far beyond API_DELAY, so the
\* first call never waits: the clock starts at API_DELAY, the smallest value
\* for which that is so.
InitFetch ==
    /\ now = API_DELAY
    /\ lastRequest = 0
    /\ fetchCall = [i \in FetchCalls |->
                     [pc |-> "idle", wakeAt |-> 0, started |-> 0]]

ClockTick ==
    /\ now < EndOfTime
    /\ now' = now + Tick
    /\ UNCHANGED <<lastRequest, fetchCall>>
    /\ UNCHANGED nonFetchVars

\* safeFetch up to its await: either it waits for the rest of the delay, or
\* it stamps lastRequest and calls fetchMovies at once.
SafeFetchCall(i) ==
    /\ fetchCall[i].pc = "idle"
    /\ IF now - lastRequest < API_DELAY
         THEN /\ fetchCall' = [fetchCall EXCEPT ![i] =
                   [pc |-> "waiting",
                    wakeAt |-> now + (API_DELAY - (now - lastRequest)),
                    started |-> 0]]
              /\ UNCHANGED lastRequest
         ELSE /\ lastRequest' = now
              /\ fetchCall' = [fetchCall EXCEPT ![i] =
                   [pc |-> "fetched", wakeAt |-> 0, started |-> now]]
    /\ UNCHANGED now
    /\ UNCHANGED nonFetchVars

\* The timer fires (at its due time or later): lastRequest = Date.now() and
\* fetchMovies is called, without looking at lastRequest again.
SafeFetchResume(i) ==
    /\ fetchCall[i].pc = "waiting"
    /\ now >= fetchCall[i].wakeAt
    /\ lastRequest' = now
    /\ fetchCall' = [fetchCall EXCEPT ![i] =
          [pc |-> "fetched", wakeAt |-> 0, started |-> now]]
    /\ UNCHANGED now
    /\ UNCHANGED nonFetchVars

NextFetch ==
    \/ ClockTick
    \/ \E i \in FetchCalls : SafeFetchCall(i)
    \/ \E i \in FetchCalls : SafeFetchResume(i)

\* -------------------------------------------------------------- App.jsx
StudentIds == 1..MaxStudents
PayCalls == 1..NumPayCalls

InitApp ==
    /\ isLoggedIn = FALSE
    /\ selectedStudent = 0
    /\ isAddingStudent = FALSE
    /\ isAddingPayment = FALSE
    /\ isGeneratingReceipt = FALSE
    /\ userId = 0
    /\ docs = [x \in {} |-> 0]
    /\ addPending = 0
    /\ payCall = [i \in PayCalls |->
                    [pc |-> "idle", studentId |-> 0, payments |-> << >>]]

\* What is on screen (the render at the end of App).
LoginShown == ~isLoggedIn
FormShown == isAddingStudent \/ isAddingPayment \/ isGeneratingReceipt
ListShown == isLoggedIn /\ ~FormShown

\* onAuthStateChanged(user => setUserId(user.uid)); App never signs out.
AuthStateChanged ==
    /\ userId = 0
    /\ userId' = 1
    /\ UNCHANGED <<uiVars, docs, addPending, payCall>>
    /\ UNCHANGED nonAppVars

\* handleLogin: the right credentials log in, anything else shows a box.
handleLogin(ok) ==
    /\ LoginShown
    /\ isLoggedIn' = (IF ok THEN TRUE ELSE isLoggedIn)
    /\ UNCHANGED <<selectedStudent, isAddingStudent, isAddingPayment,
                   isGeneratingReceipt, userId, docs, addPending, payCall>>
    /\ UNCHANGED nonAppVars

handleLogout ==
    /\ isLoggedIn
    /\ isLoggedIn' = FALSE
    /\ UNCHANGED <<selectedStudent, isAddingStudent, isAddingPayment,
                   isGeneratingReceipt, userId, docs, addPending, payCall>>
    /\ UNCHANGED nonAppVars

handleAddStudentClick ==
    /\ ListShown
    /\ isAddingStudent' = TRUE
    /\ isAddingPayment' = FALSE
    /\ isGeneratingReceipt' = FALSE
    /\ selectedStudent' = 0
    /\ UNCHANGED <<isLoggedIn, userId, docs, addPending, payCall>>
    /\ UNCHANGED nonAppVars

\* The "Add Payment" button of a listed student. The list is the last
\* snapshot the listener delivered, which may be older than the collection,
\* so the button can still be there for a student who has been paid for.
handleAddPaymentClick(student) ==
    /\ ListShown
    /\ student \in DOMAIN docs
    /\ isAddingPayment' = TRUE
    /\ isAddingStudent' = FALSE
    /\ isGeneratingReceipt' = FALSE
    /\ selectedStudent' = student
    /\ UNCHANGED <<isLoggedIn, userId, docs, addPending, payCall>>
    /\ UNCHANGED nonAppVars

\* The "Receipt" button, shown for a listed student with isPaid.
handleGenerateReceiptClick(student) ==
    /\ ListShown
    /\ student \in DOMAIN docs
    /\ docs[student].isPaid
    /\ isGeneratingReceipt' = TRUE
    /\ isAddingPayment' = FALSE
    /\ isAddingStudent' = FALSE
    /\ selectedStudent' = student
    /\ UNCHANGED <<isLoggedIn, userId, docs, addPending, payCall>>
    /\ UNCHANGED nonAppVars

\* What handleBack sets.
handleBackKeepsFlags ==
    /\ isAddingStudent' = FALSE
    /\ isAddingPayment' = isAddingPayment
    /\ isGeneratingReceipt' = isGeneratingReceipt
    /\ selectedStudent' = 0

handleBack ==
    /\ isAddingStudent' = FALSE
    /\ isAddingPayment' = FALSE
    /\ isGeneratingReceipt' = FALSE
    /\ selectedStudent' = 0

\* The Cancel / Back button of a form.
BackClick ==
    /\ isLoggedIn
    /\ FormShown
    /\ handleBack
    /\ UNCHANGED <<isLoggedIn, userId, docs, addPending, payCall>>
    /\ UNCHANGED nonAppVars

\* addStudent up to its await: with no userId it returns at once and
\* nothing changes; else the document is added, unpaid and with no payments.
NewStudent == [isPaid |-> FALSE, payments |-> << >>]

addStudent ==
    /\ isLoggedIn
    /\ isAddingStudent
    /\ userId # 0
    /\ \E id \in StudentIds \ DOMAIN docs :
         /\ \A other \in StudentIds \ DOMAIN docs : id <= other
         /\ docs' = MapSet(docs, id, NewStudent)
    /\ addPending' = addPending + 1
    /\ UNCHANGED <<uiVars, userId, payCall>>
    /\ UNCHANGED nonAppVars

\* add() has resolved: handleBack().
addStudentDone ==
    /\ addPending > 0
    /\ addPending' = addPending - 1
    /\ handleBack
    /\ UNCHANGED <<isLoggedIn, userId, docs, payCall>>
    /\ UNCHANGED nonAppVars

\* recordPayment(selectedStudent.id, amount), from the payment form, up to
\* the data of its get(): the payments the document holds at that moment.
recordPaymentGet(i) ==
    /\ isLoggedIn
    /\ isAddingPayment
    /\ selectedStudent # 0
    /\ userId # 0
    /\ payCall[i].pc = "idle"
    /\ payCall' = [payCall EXCEPT ![i] =
          [pc |-> "got", studentId |-> selectedStudent,
           payments |-> docs[selectedStudent].payments]]
    /\ UNCHANGED <<uiVars, userId, docs, addPending>>
    /\ UNCHANGED nonAppVars

\* update({ isPaid: true, payments: [...(studentData.payments || []), p] }):
\* the payment (named here by its call) is appended to the list that was
\* read, and the result replaces the stored list.
PaidUpdateNoFlag(doc, read, i) ==
    [doc EXCEPT !.payments = Append(read, i)]

PaidUpdate(doc, read, i) ==
    [isPaid |-> TRUE, payments |-> Append(read, i)]

recordPaymentUpdate(i) ==
    /\ payCall[i].pc = "got"
    /\ docs' = [docs EXCEPT ![payCall[i].studentId] =
          PaidUpdate(@, payCall[i].payments, i)]
    /\ payCall' = [payCall EXCEPT ![i].pc = "updated"]
    /\ UNCHANGED <<uiVars, userId, addPending>>
    /\ UNCHANGED nonAppVars

\* update() has resolved: handleBack().
recordPaymentDone(i) ==
    /\ payCall[i].pc = "updated"
    /\ payCall' = [payCall EXCEPT ![i].pc = "done"]
    /\ handleBack
    /\ UNCHANGED <<isLoggedIn, userId, docs, addPending>>
    /\ UNCHANGED nonAppVars

NextApp ==
    \/ AuthStateChanged
    \/ \E ok \in BOOLEAN : handleLogin(ok)
    \/ handleLogout
    \/ handleAddStudentClick
    \/ \E student \in StudentIds : handleAddPaymentClick(student)
    \/ \E student \in StudentIds : handleGenerateReceiptClick(student)
    \/ BackClick
    \/ addStudent
    \/ addStudentDone
    \/ \E i \in PayCalls : recordPaymentGet(i)
    \/ \E i \in PayCalls : recordPaymentUpdate(i)
    \/ \E i \in PayCalls : recordPaymentDone(i)

\* ------------------------------------------------------- specifications
InitServer ==
    /\ users = [x \in {} |-> 0]
    /\ session = [u \in Users |-> "Anonymous"]
    /\ readyState = [c \in Channels |-> "CONNECTING"]
    /\ owner = [c \in Channels |-> 0]
    /\ sent = [c \in Channels |-> << >>]
    /\ req = NoReq
    /\ res = NoRes
    /\ dispatched = [c \in Channels |-> 0]

Init == InitServer /\ InitFetch /\ InitApp

\* The HTTP surface alone: every sequence of register/login/logout requests.
NextAuth ==
    \/ \E u \in Users, p \in Passwords, f \in Fields : Register(u, p, f)
    \/ \E u \in Users, p \in Passwords : Login(u, p)
    \/ \E u \in Users : Logout(u)

SpecAuth == Init /\ [][NextAuth]_vars

\* The whole server: HTTP requests and socket events in any order.
Next ==
    \/ \E u \in Users, p \in Passwords, f \in Fields : Register(u, p, f)
    \/ \E u \in Users, p \in Passwords : Login(u, p)
    \/ \E u \in Users : Logout(u)
    \/ \E c \in Channels, u \in Users : Connection(c, u)
    \/ \E c \in Channels : Close(c)
    \/ \E c \in Channels : Message(c)

Spec == Init /\ [][Next]_vars

\* The WebSocket server alone: socket events on a few sockets.
NextChannel ==
    \/ \E c \in Sockets, u \in Users : Connection(c, u)
    \/ \E c \in Sockets : Close(c)
    \/ \E c \in Sockets : Message(c)

SpecChannel == Init /\ [][NextChannel]_vars

\* The rate limiter alone: safeFetch calls and the clock.
SpecFetch == Init /\ [][NextFetch]_vars

\* The school-fees app alone: clicks, submits and the database replies.
SpecApp == Init /\ [][NextApp]_vars

\* The sockets a user's client holds open: the only thing in the running
\* server that stands for the "channelRef" of the user's session.
channelRef(u) == {c \in Channels : owner[c] = u /\ readyState[c] = "OPEN"}

TypeOK ==
    /\ DOMAIN users \subseteq Users
    /\ session \in [Users -> {"Anonymous", "Authenticated", "LoggedOut"}]
    /\ readyState \in [Channels -> {"CONNECTING", "OPEN", "CLOSED"}]
    /\ owner \in [Channels -> Users \cup {0}]

\* ================================================================ claims
IsReq(r, op, u) == r.op = op /\ r.userName = u

IsBind(r, u, c) == r.op = "connection" /\ r.userName = u /\ r.ws = c

\* C1: once register(u, p) has succeeded, every later register(u, p2) fails
\* with 400 "Username already taken", and the record stored for u stays
\* exactly as the first registration wrote it (the Map holds one record per
\* key), whatever register/login/logout requests follow.
C1_DuplicateRegisterRejected ==
    [][\A u \in Users :
          u \in DOMAIN users =>
            /\ u \in DOMAIN users'
            /\ users'[u] = users[u]
            /\ IsReq(req', "register", u) =>
                 res' = [status |-> 400, body |-> "Username already taken"]]_vars

C1_Witness ==
    /\ req.op = "register"
    /\ res.status = 400
    /\ req.userName \in DOMAIN users
    /\ users[req.userName].password # hashPassword(req.password)

\* C2: register(u, p, fields) for a username not yet in the store answers
\* 200 "Registration successful! Please log in." and leaves a record for u
\* whose password field is hash(p) and not the raw password p.
C2_RegisterStoresHash ==
    [][\A u \in Users, p \in Passwords :
          (IsReq(req', "register", u) /\ req'.password = p
             /\ u \notin DOMAIN users) =>
            /\ res' = [status |-> 200,
                       body |-> "Registration successful! Please log in."]
            /\ u \in DOMAIN users'
            /\ users'[u].userName = u
            /\ users'[u].password = hashPassword(p)
            /\ users'[u].password # p]_vars

C2_Witness ==
    /\ req.op = "register"
    /\ res.status = 200
    /\ req.userName \in DOMAIN users
    /\ users[req.userName].password = hashPassword(req.password)
    /\ users[req.userName].password # req.password

\* C3: the outcome of login(u, p) is decided by the store alone: 400
\* "Invalid username" iff u has no record, 400 "Invalid password" iff u has
\* a record and verify(p, storedHash) is false, 200 "Login successful!"
\* otherwise; so a registered pair logs in and a wrong password does not.
C3_LoginOutcome ==
    req.op = "login" =>
      LET u == req.userName
          p == req.password
          known == u \in DOMAIN users
          good == IF known THEN validatePassword(p, users[u].password)
                           ELSE FALSE
      IN  /\ (res = [status |-> 400, body |-> "Invalid username"]) <=> ~known
          /\ (res = [status |-> 400, body |-> "Invalid password"])
               <=> (known /\ ~good)
          /\ (res = [status |-> 200, body |-> "Login successful!"])
               <=> (known /\ good)
          /\ known =>
               \A q \in Passwords :
                 users[u].password = hashPassword(q) =>
                   (res.status = 200 <=> p = q)

C3_Witness ==
    /\ req.op = "login"
    /\ req.userName \in DOMAIN users
    /\ res = [status |-> 400, body |-> "Invalid password"]

\* C4: a successful login(u, p) while u already has an Authenticated
\* session invalidates the prior session and closes its bound channel, so
\* after the login the previously bound channel is Closed and no longer
\* referenced.
C4_LoginClosesPriorChannel ==
    [][\A u \in Users :
          (IsReq(req', "login", u) /\ res'.status = 200
             /\ session[u] = "Authenticated") =>
            /\ \A c \in channelRef(u) : readyState'[c] = "CLOSED"
            /\ \A c \in channelRef(u) : c \notin channelRef(u)']_vars

\* C5: a session that is LoggedOut or Anonymous has channelRef unset, and a
\* channelRef that is set refers to a channel that is Open.
C5_NoChannelUnlessAuthenticated ==
    \A u \in Users :
      /\ session[u] \in {"LoggedOut", "Anonymous"} => channelRef(u) = {}
      /\ \A c \in channelRef(u) : readyState[c] = "OPEN"

\* C6: after a successful login for u, bind(u, A) followed by bind(u, B)
\* leaves A Closed and lookup(u).channelRef equal to B.
C6_SecondBindClosesFirst ==
    [][\A u \in Users, a \in Channels, b \in Channels :
          (a # b /\ session[u] = "Authenticated"
             /\ IsBind(req, u, a) /\ IsBind(req', u, b)) =>
            /\ readyState'[a] = "CLOSED"
            /\ channelRef(u)' = {b}]_vars

\* C7: logout for u while a channel is bound to u closes that channel,
\* clears channelRef and sets status LoggedOut; a bind(u, *) after it and
\* before the next successful login fails NotAuthenticated (no channel is
\* installed); a second logout of a logged-out session changes nothing.
C7_LogoutClosesChannel ==
    [][\A u \in Users :
          /\ IsReq(req', "logout", u) =>
               /\ \A c \in channelRef(u) : readyState'[c] = "CLOSED"
               /\ channelRef(u)' = {}
               /\ session'[u] = "LoggedOut"
          /\ (IsReq(req', "connection", u) /\ session[u] = "LoggedOut") =>
               /\ readyState'[req'.ws] # "OPEN"
               /\ channelRef(u)' = channelRef(u)
          /\ (IsReq(req', "logout", u) /\ session[u] = "LoggedOut") =>
               UNCHANGED <<users, session, readyState, owner, sent>>]_vars

\* C8: when the channel bound to an Authenticated user u is closed
\* out-of-band, afterwards lookup(u).channelRef is unset and
\* lookup(u).status is still Authenticated.
C8_CloseUnbindsKeepsLogin ==
    [][\A u \in Users, c \in Channels :
          (req'.op = "close" /\ req'.ws = c /\ c \in channelRef(u)
             /\ session[u] = "Authenticated") =>
            /\ channelRef(u)' = {}
            /\ session'[u] = "Authenticated"]_vars

\* C9: if the close of a channel A bound to u and a bind(u, B) race, in
\* either order, the newer bind wins: the final state has
\* lookup(u).channelRef equal to B.
C9_NewerBindWins ==
    [][\A u \in Users, a \in Channels, b \in Channels :
          (a # b /\ owner[a] = u /\ session[u] = "Authenticated"
             /\ \/ IsBind(req, u, b) /\ req'.op = "close" /\ req'.ws = a
                \/ req.op = "close" /\ req.ws = a /\ IsBind(req', u, b)) =>
            channelRef(u)' = {b}]_vars

\* C10: two bind(u, A) and bind(u, B) calls issued together for an
\* Authenticated u end, in either order, with exactly one of A and B bound
\* to u and Open and the other Closed.
C10_ConcurrentBindsLeaveOne ==
    [][\A u \in Users, a \in Channels, b \in Channels :
          (a # b /\ session[u] = "Authenticated"
             /\ IsBind(req, u, a) /\ IsBind(req', u, b)) =>
            \/ channelRef(u)' = {a} /\ readyState'[b] = "CLOSED"
            \/ channelRef(u)' = {b} /\ readyState'[a] = "CLOSED"]_vars

\* C11: each socket moves only CONNECTING -> OPEN -> CLOSED and never leaves
\* CLOSED; on entering OPEN the server sends the handshake, once, as the
\* first message on that socket, and no inbound message of the socket is
\* dispatched before it.
C11_ChannelLifecycle ==
    [][\A c \in Channels :
          /\ readyState'[c] # readyState[c] =>
               <<readyState[c], readyState'[c]>> \in
                 {<<"CONNECTING", "OPEN">>, <<"OPEN", "CLOSED">>}
          /\ (readyState[c] = "CONNECTING" /\ readyState'[c] = "OPEN") =>
               /\ sent[c] = << >>
               /\ sent'[c] = <<Handshake>>
               /\ dispatched'[c] = 0
          /\ readyState[c] # "CONNECTING" =>
               /\ sent[c] = <<Handshake>>
               /\ sent'[c] = sent[c]
          /\ readyState'[c] = "CONNECTING" => sent'[c] = << >>
          /\ dispatched'[c] # dispatched[c] =>
               /\ sent[c] # << >>
               /\ Head(sent[c]) = Handshake]_vars

C11_Witness ==
    \E c \in Channels :
      /\ readyState[c] = "CLOSED"
      /\ sent[c] = <<Handshake>>
      /\ dispatched[c] > 0

C13_RequestsSpacedByDelay ==
    \A i \in FetchCalls, j \in FetchCalls :
      (i # j /\ fetchCall[i].pc = "fetched" /\ fetchCall[j].pc = "fetched") =>
        \/ fetchCall[i].started - fetchCall[j].started >= API_DELAY
        \/ fetchCall[j].started - fetchCall[i].started >= API_DELAY

Range(seq) == {seq[k] : k \in 1..Len(seq)}

\* C14: every recordPayment call that has done its update has its payment
\* in that student's stored payments list afterwards, and no stored payment
\* is ever removed, also when two calls for the same student interleave
\* their get and update steps.
C14_NoPaymentLost ==
    [][/\ \A i \in PayCalls :
            payCall'[i].pc \in {"updated", "done"} =>
              i \in Range(docs'[payCall'[i].studentId].payments)
       /\ \A d \in DOMAIN docs :
            Range(docs[d].payments) \subseteq Range(docs'[d].payments)]_vars

\* C15: for every student document, isPaid is true exactly when the
\* payments list is non-empty, and once isPaid is true it stays true.
C15_PaidIffPayments ==
    [][/\ \A d \in DOMAIN docs' :
            docs'[d].isPaid <=> (docs'[d].payments # << >>)
       /\ \A d \in DOMAIN docs :
            docs[d].isPaid => (d \in DOMAIN docs' /\ docs'[d].isPaid)]_vars

C15_Witness ==
    \E d \in DOMAIN docs :
      /\ docs[d].isPaid
      /\ Len(docs[d].payments) = 1
      /\ \A i \in PayCalls :
           payCall[i].pc = "done" /\ payCall[i].studentId = d

\* C16: at most one of isAddingStudent, isAddingPayment and
\* isGeneratingReceipt is true, and selectedStudent is non-null whenever
\* isAddingPayment or isGeneratingReceipt is true.
C16_OneFormAtATime ==
    /\ ~(isAddingStudent /\ isAddingPayment)
    /\ ~(isAddingStudent /\ isGeneratingReceipt)
    /\ ~(isAddingPayment /\ isGeneratingReceipt)
    /\ (isAddingPayment \/ isGeneratingReceipt) => selectedStudent # 0

C16_Witness ==
    /\ isGeneratingReceipt
    /\ selectedStudent # 0
    /\ ~isLoggedIn
    /\ \E i \in PayCalls : payCall[i].pc = "done"
====
